---- MODULE Spec2Model ----
(***************************************************************************)
(* Job lifecycle of the Riverpark AI content builder.                      *)
(*                                                                         *)
(*   src/src/app/api/jobs/route.ts   GET, POST /jobs and the scheduler     *)
(*                                   (simulateJobProgress), over the       *)
(*                                   module-local array `jobs`             *)
(*   src/unnamed/part_006            GET, PATCH, DELETE /jobs/{id}, over   *)
(*                                   the array kept in `global.jobs`       *)
(*   src/src/app/api/products/route.ts  GET /products, asked by POST /jobs *)
(*   src/unnamed/part_001            BigCommerceClient, the product source *)
(*                                   with its mock-data fallback           *)
(*   src/src/app/api/json-files/route.ts,                                  *)
(*   src/unnamed/part_007            the stored JSON files                 *)
(*   src/src/lib/ai/content-generator.ts,                                  *)
(*   src/unnamed/part_000            the content generators                *)
(*   src/src/lib/catalyst/client.ts  the publisher                         *)
(*   src/src/app/page.tsx,                                                 *)
(*   src/src/hooks/useJobProgress.ts    the page: its copy of the jobs and *)
(*                                      its polling of GET /jobs           *)
(*                                                                         *)
(* The two files keep two different arrays: nothing in the repository      *)
(* stores a job in global.jobs, and nothing but POST and the scheduler     *)
(* touches the array of route.ts.  Both arrays are state of the model.     *)
(*                                                                         *)
(* A scheduler tick is an async callback of setInterval.  It runs          *)
(* synchronously up to its first await (TickBegin), then once per product  *)
(* of its slice, each product's awaits taken together (TickStep); the      *)
(* progress update after the loop runs in the same synchronous stretch as  *)
(* the end of the last product.  setInterval does not wait for the         *)
(* previous callback, so several ticks of one job can be in flight.        *)
(***************************************************************************)
EXTENDS Integers, Sequences, FiniteSets, TLC

\* ---------------------------------------------------------------- bounds
\* jobs created, products resolved over all jobs, largest batchSize in a
\* request body, interval callbacks suspended at the same time
MaxJobs == 1
MaxProducts == 3
MaxBatch == 2
MaxInflight == 2
\* products of a job in the runs whose ticks do not overlap
MaxSerialProducts == 5
\* GET /jobs responses on their way to the page at the same time
MaxFetches == 2
\* the clock, in the runs of the json-files route
MaxTime == 3
\* mock data of BigCommerceClient: categories (11 in the code), products of a
\* category (15 in the code), values of Math.floor(Math.random() * 1000)
MaxMockCategories == 2
MaxMock == 2
MaxRandom == 2

JobIds == 1..MaxJobs
\* ids a client may put in /jobs/{id}: the ids POST hands out and one more
RequestIds == 1..(MaxJobs + 1)

\* JobStatus, src/unnamed/part_008
JobStatus == {"pending", "running", "paused", "completed", "failed", "cancelled"}

\* outcome of one product of a slice: generateContent resolved and
\* publishContent returned true / returned false / something in the try threw
Outcomes == {"published", "deployment", "ai-generation"}

VARIABLES
  jobs,                 \* route.ts: const jobs: ProcessingJob[]
  globalJobs,           \* part_006: global.jobs (<<>> also stands for undefined)
  startTimer,           \* job ids whose setTimeout(..., 1000) of POST is pending
  interval,             \* job ids whose setInterval(..., 3000) is not cleared
  processedProducts,    \* closure variable of simulateJobProgress, per job
  currentProductIndex,  \* closure variable of simulateJobProgress, per job
  ticks,                \* per job, the interval callbacks suspended at an await
  now,                  \* the clock read by new Date()
  response,             \* the last HTTP response sent
  generated,            \* per job, the products passed to generateContent so far
  fired,                \* per job, how many times the interval callback has run
  dashboardJobs,        \* useJobProgress: the state `jobs` of the hook
  fetches,              \* useJobProgress: bodies of GET /jobs responses under way
  pollTimer,            \* useJobProgress: the polling intervals that are set
  jsonStorage,          \* json-files/route.ts: const jsonStorage: Map<string, any>
  fileTypes,            \* the two type names of the json-files route deployed
  call                  \* the last call of the generator or of the publisher

\* state of the page in the browser
client == <<dashboardJobs, fetches, pollTimer>>

\* state of the content library: the stored files, the calls made
library == <<jsonStorage, fileTypes, call>>

vars == <<jobs, globalJobs, startTimer, interval, processedProducts,
          currentProductIndex, ticks, now, response, generated, fired, client,
          library>>

\* ------------------------------------------------------------- helpers

\* completedAt of a job that has none (the property is absent)
Unset == 0

\* a catalog of n products: product ids 1..n in catalog order
Products(n) == [k \in 1..n |-> k]

\* the categories of a request body: the field may be absent
CategoryInputs == {[present |-> FALSE, ids |-> <<>>],
                   [present |-> TRUE, ids |-> <<>>],
                   [present |-> TRUE, ids |-> <<1>>]}

\* the catalogs considered: product 1 is in category 1, the others in 2
CategoryOf(product) == IF product = 1 THEN 1 ELSE 2

\* the category ids of getMockCategories (1..11 in the code)
MockCategoryIds == 1..MaxMockCategories

\* generateMockProducts: const productId = 1000 + i + Math.floor(...)
MockBase == 1000

\* what Math.floor(Math.random() * 1000) gives for each product of each mock
\* category during one request
Randoms == [MockCategoryIds -> [1..MaxMock -> 0..(MaxRandom - 1)]]
NoRandom == [c \in MockCategoryIds |-> [i \in 1..MaxMock |-> 0]]

\* the store behind BigCommerceClient during one request: the credentials
\* are configured or not, its API answers or fails, the products it holds
Catalog(n) == [configured |-> TRUE, ok |-> TRUE, products |-> Products(n),
               random |-> NoRandom]
Answers(store) == store.configured /\ store.ok
\* the stores that do not answer: what they hold is never read
FailingStores ==
  {store \in [configured : BOOLEAN, ok : BOOLEAN, products : {Products(MaxProducts)},
              random : Randoms] : ~Answers(store)}
Stores == {Catalog(n) : n \in 0..MaxProducts} \cup FailingStores

\* transformProducts: the fields of a product read elsewhere; a product of
\* the catalog is named after itself
TransformProducts(products) ==
  [k \in 1..Len(products) |->
     [productId |-> products[k], name |-> <<"catalog", products[k]>>,
      category |-> CategoryOf(products[k])]]

\* generateMockProducts(`Category ${categoryId}`): no such key in
\* productCounts or namesByCategory, so the default count of products, all
\* named "Generic Fish", from the third on with "(Variety i)"
GenerateMockProducts(store, categoryId) ==
  [k \in 1..MaxMock |->
     [productId |-> MockBase + (k - 1) + store.random[categoryId][k],
      name |-> <<"Generic Fish", IF k - 1 > 1 THEN k - 1 ELSE 0>>,
      category |-> categoryId]]

\* BigCommerceClient.getProductsByCategory: mock data without credentials
\* and when the API fails
GetProductsByCategory(store, categoryId) ==
  IF Answers(store)
  THEN TransformProducts(SelectSeq(store.products,
                                   LAMBDA product : CategoryOf(product) = categoryId))
  ELSE GenerateMockProducts(store, categoryId)

\* BigCommerceClient.getCategories, and the products of a list of categories
GetMockCategories == [c \in MockCategoryIds |-> c]
GetCategories(store) == IF Answers(store) THEN <<1, 2>> ELSE GetMockCategories
RECURSIVE ProductsOfCategories(_, _)
ProductsOfCategories(store, categoryIds) ==
  IF categoryIds = <<>>
  THEN <<>>
  ELSE GetProductsByCategory(store, Head(categoryIds))
         \o ProductsOfCategories(store, Tail(categoryIds))

\* BigCommerceClient.getAllProducts: the catalog, or category by category
\* without credentials and when the API fails
GetAllProducts(store) ==
  IF Answers(store)
  THEN TransformProducts(store.products)
  ELSE ProductsOfCategories(store, GetCategories(store))

\* what parseInt gives for a text that is no number
NaN == 0

\* param.split(',').map(id => parseInt(id.trim())), the parameter being the
\* ids joined by commas: the empty text splits into one empty piece
ParseCategoryIds(ids) == IF ids = <<>> THEN <<NaN>> ELSE ids

\* GET /products: allProducts.push(...products) for each category id of the
\* query that is a number, all products when the query has no categories
RECURSIVE AllProductsOf(_, _)
AllProductsOf(store, categoryIds) ==
  IF categoryIds = <<>>
  THEN <<>>
  ELSE (IF Head(categoryIds) = NaN
        THEN <<>>
        ELSE GetProductsByCategory(store, Head(categoryIds)))
         \o AllProductsOf(store, Tail(categoryIds))

\* the body of the 200 response of GET /products.  Nothing in the try block
\* throws (the client catches its own errors), so the 500 of the catch block
\* is never sent.
ProductsRoute(query, store) ==
  IF query.present /\ Len(ParseCategoryIds(query.ids)) > 0
  THEN AllProductsOf(store, ParseCategoryIds(query.ids))
  ELSE GetAllProducts(store)

\* the ids of a list of products
ProductIds(products) == [k \in 1..Len(products) |-> products[k].productId]

\* a request for products that always carries ?categories=
ProductsQueryAsGiven(categories) == [present |-> TRUE, ids |-> categories.ids]

\* the query POST /jobs puts on /api/products: ?categories=... only when
\* categories is there and not empty
ProductsQuery(categories) ==
  IF categories.present /\ Len(categories.ids) > 0
  THEN [present |-> TRUE, ids |-> categories.ids]
  ELSE [present |-> FALSE, ids |-> <<>>]

\* jobs.find(j => j.id === id) / findIndex: 0 stands for "not found" (-1)
FindIndex(store, id) ==
  IF \E k \in 1..Len(store) : store[k].id = id
  THEN CHOOSE k \in 1..Len(store) :
         /\ store[k].id = id
         /\ \A m \in 1..(k - 1) : store[m].id # id
  ELSE 0

\* Math.min
Min(a, b) == IF a <= b THEN a ELSE b

\* Math.round((completed / total) * 100): round half up.  For total <= 7 the
\* quotient is never a half, so the floating-point result is this integer.
Percentage(completed, total) == (200 * completed + total) \div (2 * total)

\* what the bounds leave: products already resolved, callbacks in flight
ResolvedProducts == LET Sum[k \in 0..Len(jobs)] ==
                          IF k = 0 THEN 0 ELSE Sum[k - 1] + Len(jobs[k].products)
                    IN Sum[Len(jobs)]
Suspended == LET Sum[k \in 0..MaxJobs] ==
                   IF k = 0 THEN 0 ELSE Sum[k - 1] + Len(ticks[k])
             IN Sum[MaxJobs]

NoResponse == [op |-> "none", id |-> 0, status |-> "-", code |-> 0, error |-> "-"]

\* array.splice(k, 1)
Splice(s, k) == [m \in 1..(Len(s) - 1) |-> IF m < k THEN s[m] ELSE s[m + 1]]

\* ---------------------------------------------- generated files (helpers)

\* a text with hyphens, as the pieces text.split('-') gives
Pieces(text) == IF text = "ai-search" THEN <<"ai", "search">> ELSE <<text>>

\* the type names of the two versions of the json-files route
FileTypes == <<<<"quickref", "details">>, <<"species", "ai-search">>>>

\* getStorageKey: `${productId}-${type}`, kept as its pieces
GetStorageKey(productId, type) == <<productId>> \o Pieces(type)

\* Map.set, Map.delete and Map.has on a function over the keys
MapSet(map, key, value) ==
  [x \in DOMAIN map \cup {key} |-> IF x = key THEN value ELSE map[x]]
MapDelete(map, key) == [x \in DOMAIN map \ {key} |-> map[x]]
MapHas(map, key) == key \in DOMAIN map

\* a text field that is absent, a category that is absent
None == "-"
NoCategory == 0

\* AIContentGenerator.generateContent of content-generator.ts when it does
\* not throw: every field but the two timestamps is computed from the name
\* and the first category of the product and from the configuration
GenerateContent(product, time) ==
  [productId |-> product.productId, type |-> "ai-search", name |-> product.name,
   category |-> product.category, generatedAt |-> time]

\* the quick-reference object built from generated content: it takes its
\* names from the content and has no category
QuickrefData(aiContent, type) ==
  [productId |-> aiContent.productId, type |-> type, name |-> aiContent.name,
   category |-> NoCategory, generatedAt |-> aiContent.generatedAt]

\* populateStorageFromGeneration: both files of the product
PopulateStorageFromGeneration(storage, types, productId, aiContent) ==
  MapSet(MapSet(storage, GetStorageKey(productId, types[1]),
                QuickrefData(aiContent, types[1])),
         GetStorageKey(productId, types[2]), aiContent)

\* no call of the library yet
NoCall == [op |-> "none"]

\* ---------------------------------------------------------------- Init
\* the state after construction, with the given version of the json-files route
InitFor(types) ==
  /\ jobs = <<>>
  /\ globalJobs = <<>>
  /\ startTimer = {}
  /\ interval = {}
  /\ processedProducts = [j \in JobIds |-> 0]
  /\ currentProductIndex = [j \in JobIds |-> 0]
  /\ ticks = [j \in JobIds |-> <<>>]
  /\ now = 1
  /\ response = NoResponse
  /\ generated = [j \in JobIds |-> <<>>]
  /\ fired = [j \in JobIds |-> 0]
  /\ dashboardJobs = <<>>
  /\ fetches = <<>>
  /\ pollTimer = 0
  /\ jsonStorage = <<>>
  /\ fileTypes = types
  /\ call = NoCall

Init == InitFor(FileTypes[1])

\* ------------------------------------------------------ /jobs (route.ts)

\* GET /jobs
GET ==
  /\ response' = [op |-> "GET", id |-> 0, status |-> "-", code |-> 200, error |-> "-"]
  /\ UNCHANGED <<jobs, globalJobs, startTimer, interval, processedProducts,
                 currentProductIndex, ticks, now, generated, fired, client, library>>

\* the job POST builds for the products resolved
NewJob(id, categories, products, batchSize, time) ==
  [id |-> id,
   categories |-> categories,
   products |-> products,
   batchSize |-> batchSize,
   status |-> "pending",
   progress |-> [total |-> Len(products), completed |-> 0,
                 failed |-> 0, percentage |-> 0],
   startedAt |-> time,
   completedAt |-> Unset,
   errors |-> <<>>]

\* a POST that stores the job and sets its timer before it resolves the
\* products, and leaves both behind when the resolution fails
POSTPersistsFirst(categories, store, batchSize, fetchOk) ==
  /\ Len(jobs) < MaxJobs
  /\ LET products == IF fetchOk
                     THEN ProductIds(ProductsRoute(ProductsQuery(categories), store))
                     ELSE <<>>
         newJob == NewJob(Len(jobs) + 1, categories, products, batchSize, now)
     IN /\ jobs' = Append(jobs, newJob)
        /\ startTimer' = startTimer \cup {newJob.id}
        /\ now' = now + 1
        /\ response' = IF fetchOk
                       THEN [op |-> "POST", id |-> newJob.id, status |-> newJob.status,
                             code |-> 201, error |-> "-", body |-> newJob]
                       ELSE [op |-> "POST", id |-> 0, status |-> "-",
                             code |-> 500, error |-> "Failed to create job"]
  /\ UNCHANGED <<globalJobs, interval, processedProducts, currentProductIndex, ticks,
                 generated, fired, client, library>>

\* POST /jobs with categories and batchSize in the body, before the given
\* store: the request to /api/products is answered ok (fetchOk) or is not
PostJobs(categories, store, batchSize, fetchOk) ==
  /\ Len(jobs) < MaxJobs
  /\ IF fetchOk
     THEN LET products == ProductIds(ProductsRoute(ProductsQuery(categories), store))
              newJob == NewJob(Len(jobs) + 1, categories, products, batchSize, now)
          IN /\ jobs' = Append(jobs, newJob)
             /\ startTimer' = startTimer \cup {newJob.id}
             /\ now' = now + 1
             /\ response' = [op |-> "POST", id |-> newJob.id, status |-> newJob.status,
                             code |-> 201, error |-> "-", body |-> newJob]
     ELSE /\ response' = [op |-> "POST", id |-> 0, status |-> "-",
                          code |-> 500, error |-> "Failed to create job"]
          /\ UNCHANGED <<jobs, startTimer, now>>
  /\ UNCHANGED <<globalJobs, interval, processedProducts, currentProductIndex, ticks,
                 generated, fired, library>>

POST(categories, store, batchSize, fetchOk) ==
  /\ PostJobs(categories, store, batchSize, fetchOk)
  /\ UNCHANGED client

\* the queries put to GET /products
ProductsQueries == CategoryInputs \cup {[present |-> TRUE, ids |-> <<2>>],
                                        [present |-> TRUE, ids |-> <<1, 2>>]}

\* GET /products before the given store
GETProducts(query, store) ==
  /\ response' = [op |-> "GETProducts", id |-> 0, status |-> "-", code |-> 200,
                  error |-> "-", body |-> ProductsRoute(query, store)]
  /\ UNCHANGED <<jobs, globalJobs, startTimer, interval, processedProducts,
                 currentProductIndex, ticks, now, generated, fired, client, library>>

\* simulateJobProgress(jobId), run by the timeout of POST, up to setInterval
Start(id) ==
  /\ id \in startTimer
  /\ startTimer' = startTimer \ {id}
  /\ LET k == FindIndex(jobs, id)
     IN IF k = 0
        THEN UNCHANGED <<jobs, interval, processedProducts, currentProductIndex>>
        ELSE /\ jobs' = [jobs EXCEPT ![k].status = "running"]
             /\ processedProducts' = [processedProducts EXCEPT ![id] = 0]
             /\ currentProductIndex' = [currentProductIndex EXCEPT ![id] = 0]
             /\ interval' = interval \cup {id}
  /\ UNCHANGED <<globalJobs, ticks, now, response, generated, fired, client, library>>

\* the interval callback, from its start to its first await (or its return)
TickBegin(id) ==
  /\ id \in interval
  /\ Suspended < MaxInflight
  /\ fired' = [fired EXCEPT ![id] = @ + 1]
  /\ LET k == FindIndex(jobs, id)
     IN IF k = 0 \/ jobs[k].status # "running"
        THEN /\ interval' = interval \ {id}
             /\ UNCHANGED <<jobs, ticks, now, generated>>
        ELSE LET batchSize == Min(jobs[k].batchSize,
                                  Len(jobs[k].products) - currentProductIndex[id])
             IN IF batchSize <= 0
                THEN /\ jobs' = [jobs EXCEPT ![k].status = "completed",
                                             ![k].completedAt = now]
                     /\ now' = now + 1
                     /\ interval' = interval \ {id}
                     /\ UNCHANGED <<ticks, generated>>
                ELSE /\ ticks' = [ticks EXCEPT ![id] =
                                    Append(@, [start |-> currentProductIndex[id],
                                               batchSize |-> batchSize,
                                               pos |-> 0,
                                               batchSuccessful |-> 0,
                                               batchFailed |-> 0])]
                     /\ generated' = [generated EXCEPT ![id] =
                          Append(@, jobs[k].products[currentProductIndex[id] + 1])]
                     /\ UNCHANGED <<jobs, interval, now>>
  /\ UNCHANGED <<globalJobs, startTimer, processedProducts, currentProductIndex,
                 response, client, library>>

\* a progress object that forgets the failures of earlier slices
NewProgressFailedOverwritten(job, processed, batchFailed) ==
  [total |-> Len(job.products),
   completed |-> processed,
   failed |-> batchFailed,
   percentage |-> Percentage(processed, Len(job.products))]

\* the progress object written after the loop
NewProgress(job, processed, batchFailed) ==
  [total |-> Len(job.products),
   completed |-> processed,
   failed |-> job.progress.failed + batchFailed,
   percentage |-> Percentage(processed, Len(job.products))]

\* a progress update that gives the job up when its slice had a failure
UpdatedJobAbortOnFailure(job, processed, batchFailed, index, time) ==
  [job EXCEPT
     !.progress = NewProgress(job, processed, batchFailed),
     !.status = IF batchFailed > 0 THEN "failed"
                ELSE IF index >= Len(job.products) THEN "completed" ELSE @,
     !.completedAt = IF index >= Len(job.products) THEN time ELSE @]

\* a progress update that leaves completing the job to a later tick
UpdatedJobNeverCompletes(job, processed, batchFailed, index, time) ==
  [job EXCEPT !.progress = NewProgress(job, processed, batchFailed)]

\* the job after the loop: progress replaced and, when the cursor has
\* reached the end of the products, status completed and completedAt set
UpdatedJob(job, processed, batchFailed, index, time) ==
  [job EXCEPT
     !.progress = NewProgress(job, processed, batchFailed),
     !.status = IF index >= Len(job.products) THEN "completed" ELSE @,
     !.completedAt = IF index >= Len(job.products) THEN time ELSE @]

\* a count of successes that takes generated content for published content
SuccessfulIfGenerated(outcome) == IF outcome # "ai-generation" THEN 1 ELSE 0

\* what one product adds to batchSuccessful: 1 when publishSuccess is true
Successful(outcome) == IF outcome = "published" THEN 1 ELSE 0

\* what one product adds to batchFailed: 1 in the else branch and in the catch
Failed(outcome) == IF outcome = "published" THEN 0 ELSE 1

\* one product of the slice of the i-th suspended tick of job id, with the
\* given outcome; after the last product of the slice, the progress update
TickStep(id, i, outcome) ==
  /\ i \in 1..Len(ticks[id])
  /\ LET t == ticks[id][i]
         k == FindIndex(jobs, id)
         job == jobs[k]
         product == job.products[t.start + t.pos + 1]
         ok == t.batchSuccessful + Successful(outcome)
         bad == t.batchFailed + Failed(outcome)
         pushed == IF outcome = "published"
                   THEN job
                   ELSE [job EXCEPT !.errors =
                           Append(@, [productId |-> product, errorType |-> outcome])]
         processed == processedProducts[id] + ok
         index == currentProductIndex[id] + t.batchSize
     IN /\ k # 0
        /\ jsonStorage' = IF outcome = "ai-generation"
                          THEN jsonStorage
                          ELSE PopulateStorageFromGeneration(
                                 jsonStorage, fileTypes, product,
                                 GenerateContent(TransformProducts(<<product>>)[1], now))
        /\ IF t.pos + 1 < t.batchSize
           THEN /\ jobs' = [jobs EXCEPT ![k] = pushed]
                /\ ticks' = [ticks EXCEPT ![id][i] =
                               [@ EXCEPT !.pos = t.pos + 1,
                                         !.batchSuccessful = ok,
                                         !.batchFailed = bad]]
                /\ generated' = [generated EXCEPT ![id] =
                     Append(@, job.products[t.start + t.pos + 2])]
                /\ UNCHANGED <<processedProducts, currentProductIndex, interval, now>>
           ELSE /\ processedProducts' = [processedProducts EXCEPT ![id] = processed]
                /\ currentProductIndex' = [currentProductIndex EXCEPT ![id] = index]
                /\ ticks' = [ticks EXCEPT ![id] = Splice(@, i)]
                /\ jobs' = [jobs EXCEPT ![k] = UpdatedJob(pushed, processed, bad, index, now)]
                /\ UNCHANGED generated
                /\ IF index >= Len(job.products)
                   THEN /\ now' = now + 1
                        /\ interval' = interval \ {id}
                   ELSE UNCHANGED <<interval, now>>
  /\ UNCHANGED <<globalJobs, startTimer, response, fired, client, fileTypes, call>>

\* ------------------------------------------------- /jobs/{id} (part_006)

\* getJobs(): the array in global.jobs, created empty when absent
GetJobs == globalJobs

\* GET /jobs/{id}
GETById(id) ==
  /\ LET k == FindIndex(GetJobs, id)
     IN response' = IF k = 0
                    THEN [op |-> "GETById", id |-> id, status |-> "-",
                          code |-> 404, error |-> "Job not found"]
                    ELSE [op |-> "GETById", id |-> id, status |-> GetJobs[k].status,
                          code |-> 200, error |-> "-"]
  /\ UNCHANGED <<jobs, globalJobs, startTimer, interval, processedProducts,
                 currentProductIndex, ticks, now, generated, fired, client, library>>

\* PATCH as it would be if the handlers of part_006 used the array of route.ts
PATCHSharedStore(id, status) ==
  /\ LET k == FindIndex(jobs, id)
     IN IF k = 0
        THEN /\ response' = [op |-> "PATCH", id |-> id, status |-> status,
                             code |-> 404, error |-> "Job not found"]
             /\ UNCHANGED <<jobs, now>>
        ELSE /\ jobs' = [jobs EXCEPT
                           ![k].status = status,
                           ![k].completedAt =
                             IF status = "completed" THEN now ELSE @]
             /\ now' = IF status = "completed" THEN now + 1 ELSE now
             /\ response' = [op |-> "PATCH", id |-> id, status |-> status,
                             code |-> 200, error |-> "-"]
  /\ UNCHANGED <<globalJobs, startTimer, interval, processedProducts,
                 currentProductIndex, ticks, generated, fired, client, library>>

\* a PATCH on the array of route.ts that stores a fresh record for the job
\* instead of spreading the old one: progress and errors start over
PATCHReplacesJob(id, status) ==
  /\ LET k == FindIndex(jobs, id)
     IN IF k = 0
        THEN /\ response' = [op |-> "PATCH", id |-> id, status |-> status,
                             code |-> 404, error |-> "Job not found"]
             /\ UNCHANGED <<jobs, now>>
        ELSE /\ jobs' = [jobs EXCEPT
                           ![k].status = status,
                           ![k].progress = [total |-> 0, completed |-> 0,
                                            failed |-> 0, percentage |-> 0],
                           ![k].errors = <<>>]
             /\ now' = now
             /\ response' = [op |-> "PATCH", id |-> id, status |-> status,
                             code |-> 200, error |-> "-"]
  /\ UNCHANGED <<globalJobs, startTimer, interval, processedProducts,
                 currentProductIndex, ticks, generated, fired, client, library>>

\* PATCH /jobs/{id} with body {status}
PATCH(id, status) ==
  /\ LET k == FindIndex(GetJobs, id)
     IN IF k = 0
        THEN /\ response' = [op |-> "PATCH", id |-> id, status |-> status,
                             code |-> 404, error |-> "Job not found"]
             /\ UNCHANGED <<globalJobs, now>>
        ELSE /\ globalJobs' = [globalJobs EXCEPT
                                 ![k].status = status,
                                 ![k].completedAt =
                                   IF status = "completed" THEN now ELSE @]
             /\ now' = IF status = "completed" THEN now + 1 ELSE now
             /\ response' = [op |-> "PATCH", id |-> id, status |-> status,
                             code |-> 200, error |-> "-"]
  /\ UNCHANGED <<jobs, startTimer, interval, processedProducts,
                 currentProductIndex, ticks, generated, fired, client, library>>

\* DELETE /jobs/{id}
DELETE(id) ==
  /\ LET k == FindIndex(GetJobs, id)
     IN IF k = 0
        THEN /\ response' = [op |-> "DELETE", id |-> id, status |-> "-",
                             code |-> 404, error |-> "Job not found"]
             /\ UNCHANGED globalJobs
        ELSE /\ globalJobs' = Splice(globalJobs, k)
             /\ response' = [op |-> "DELETE", id |-> id, status |-> "-",
                             code |-> 200, error |-> "-"]
  /\ UNCHANGED <<jobs, startTimer, interval, processedProducts,
                 currentProductIndex, ticks, now, generated, fired, client, library>>

\* ------------------------------------------ /json-files (json-files/route.ts)

\* product ids a client sends: none, one of the catalog, two of the mock data
JsonProductIds == {0, 1, MockBase, MockBase + 1}

\* type names a client sends: none, the two of the route, another
JsonTypes == {None, fileTypes[1], fileTypes[2], "other"}

JsonResponse(op, code) ==
  [op |-> op, id |-> 0, status |-> "-", code |-> code, error |-> "-"]

\* the file GET builds for an entry of the storage:
\* const [productIdStr, type] = key.split('-')
JSONFile(key, content) ==
  [productId |-> key[1], type |-> <<key[2]>>, filename |-> <<key[1], key[2], ".json">>,
   lastModified |-> content.generatedAt]

\* the files of the storage, by the entry each one is built for (the order
\* of the list is left out)
JSONFiles(storage) == [key \in DOMAIN storage |-> JSONFile(key, storage[key])]

\* GET /json-files
JsonGET ==
  /\ response' = [op |-> "JsonGET", id |-> 0, status |-> "-", code |-> 200,
                  error |-> "-", body |-> JSONFiles(jsonStorage)]
  /\ UNCHANGED <<jobs, globalJobs, startTimer, interval, processedProducts,
                 currentProductIndex, ticks, now, generated, fired, client, library>>

\* the content objects a client puts: productId is there or not
PutContents(type) ==
  {[productId |-> q, type |-> type, name |-> <<"edited", q>>, category |-> NoCategory,
    generatedAt |-> 0] : q \in {0, 1}}

\* PUT /json-files with {productId, type, content}; complete: the content
\* has the other fields the validation asks for
JsonPUT(productId, type, content, complete) ==
  /\ now < MaxTime
  /\ IF \/ productId = 0 \/ type = None
        \/ type \notin {fileTypes[1], fileTypes[2]}
        \/ content.productId = 0 \/ ~complete
     THEN /\ response' = JsonResponse("JsonPUT", 400)
          /\ UNCHANGED <<jsonStorage, now>>
     ELSE /\ jsonStorage' = MapSet(jsonStorage, GetStorageKey(productId, type),
                                   [content EXCEPT !.generatedAt = now])
          /\ now' = now + 1
          /\ response' = JsonResponse("JsonPUT", 200)
  /\ UNCHANGED <<jobs, globalJobs, startTimer, interval, processedProducts,
                 currentProductIndex, ticks, generated, fired, client, fileTypes, call>>

\* DELETE /json-files with {productId, type}
JsonDELETE(productId, type) ==
  /\ IF productId = 0 \/ type = None
     THEN /\ response' = JsonResponse("JsonDELETE", 400)
          /\ UNCHANGED jsonStorage
     ELSE IF MapHas(jsonStorage, GetStorageKey(productId, type))
          THEN /\ jsonStorage' = MapDelete(jsonStorage, GetStorageKey(productId, type))
               /\ response' = JsonResponse("JsonDELETE", 200)
          ELSE /\ response' = JsonResponse("JsonDELETE", 404)
               /\ UNCHANGED jsonStorage
  /\ UNCHANGED <<jobs, globalJobs, startTimer, interval, processedProducts,
                 currentProductIndex, ticks, now, generated, fired, client,
                 fileTypes, call>>

\* allProducts.find(p => p.productId === parseInt(productId)): 0 when none
FindProduct(products, productId) ==
  IF \E k \in 1..Len(products) : products[k].productId = productId
  THEN CHOOSE k \in 1..Len(products) :
         /\ products[k].productId = productId
         /\ \A m \in 1..(k - 1) : products[m].productId # productId
  ELSE 0

\* POST /json-files with {productId, regenerateType} before the given store;
\* generated: generateContent returns; written: the file generator writes
\* the files without throwing
JsonPOST(productId, regenerateType, store, generated_, written) ==
  /\ now < MaxTime
  /\ LET allProducts == GetAllProducts(store)
         k == FindProduct(allProducts, productId)
     IN IF productId = 0
        THEN /\ response' = JsonResponse("JsonPOST", 400)
             /\ UNCHANGED <<jsonStorage, now>>
        ELSE IF k = 0
        THEN /\ response' = JsonResponse("JsonPOST", 404)
             /\ UNCHANGED <<jsonStorage, now>>
        ELSE IF ~generated_
        THEN /\ response' = JsonResponse("JsonPOST", 500)
             /\ UNCHANGED <<jsonStorage, now>>
        ELSE LET aiContent == GenerateContent(allProducts[k], now)
                 first == IF written /\ regenerateType \in {None, fileTypes[1]}
                          THEN MapSet(jsonStorage,
                                      GetStorageKey(productId, fileTypes[1]),
                                      QuickrefData(aiContent, fileTypes[1]))
                          ELSE jsonStorage
             IN /\ jsonStorage' =
                     IF written /\ regenerateType \in {None, fileTypes[2]}
                     THEN MapSet(first, GetStorageKey(productId, fileTypes[2]),
                                 aiContent)
                     ELSE first
                /\ now' = now + 1
                /\ response' = JsonResponse("JsonPOST", 200)
  /\ UNCHANGED <<jobs, globalJobs, startTimer, interval, processedProducts,
                 currentProductIndex, ticks, generated, fired, client, fileTypes, call>>

\* populateStorageFromGeneration called for the k-th product of a store,
\* as the scheduler calls it for a product it has generated content for
PopulateStorage(store, k) ==
  /\ now < MaxTime
  /\ k \in 1..Len(GetAllProducts(store))
  /\ LET product == GetAllProducts(store)[k]
     IN jsonStorage' = PopulateStorageFromGeneration(
                         jsonStorage, fileTypes, product.productId,
                         GenerateContent(product, now))
  /\ now' = now + 1
  /\ UNCHANGED <<jobs, globalJobs, startTimer, interval, processedProducts,
                 currentProductIndex, ticks, response, generated, fired, client,
                 fileTypes, call>>

\* ------------------------------------ the publisher (lib/catalyst/client.ts)

\* what a fetch gives: the status of the response, or Throws for a fetch that
\* rejects
Throws == 0
FetchResults == {200, 404, 500, Throws}

\* response.ok
Ok(status) == status = 200

\* the result of a publishing method: what it returns and the steps taken
Published(ok, steps) == [ok |-> ok, steps |-> steps]

\* createStaticContentFiles: the content is logged for manual import
CreateStaticContentFiles == Published(TRUE, <<"static">>)

\* publishViaFileSync: any response that is not ok leads to the static
\* files, a fetch that rejects to false
PublishViaFileSync(sync) ==
  IF sync = Throws
  THEN Published(FALSE, <<"file-sync">>)
  ELSE IF ~Ok(sync)
       THEN Published(CreateStaticContentFiles.ok,
                      <<"file-sync">> \o CreateStaticContentFiles.steps)
       ELSE Published(TRUE, <<"file-sync">>)

\* publishViaWebhook: 404 falls back to the file sync inside the try; any
\* other response that is not ok throws, and the catch, which a rejected
\* fetch also reaches, falls back to the file sync as well
PublishViaWebhook(webhook, sync) ==
  IF webhook # Throws /\ Ok(webhook)
  THEN Published(TRUE, <<"webhook">>)
  ELSE Published(PublishViaFileSync(sync).ok,
                 <<"webhook">> \o PublishViaFileSync(sync).steps)

\* publishViaAPI
PublishViaAPI(api) ==
  Published(api # Throws /\ Ok(api), <<"api">>)

DeploymentMethods == {"webhook", "api", "file-sync", "none"}

\* publishContent: the JSON files first (filesOk: they are written), then
\* the deployment method of the client
PublishContent(method, filesOk, webhook, sync, api) ==
  IF ~filesOk
  THEN Published(FALSE, <<>>)
  ELSE IF method = "webhook" THEN PublishViaWebhook(webhook, sync)
  ELSE IF method = "api" THEN PublishViaAPI(api)
  ELSE IF method = "file-sync" THEN PublishViaFileSync(sync)
  ELSE Published(TRUE, <<>>)

\* a call of publishContent
CallPublishContent(method, filesOk, webhook, sync, api) ==
  /\ call' = [op |-> "publishContent", method |-> method, filesOk |-> filesOk,
              webhook |-> webhook, sync |-> sync, api |-> api,
              result |-> PublishContent(method, filesOk, webhook, sync, api)]
  /\ UNCHANGED <<jobs, globalJobs, startTimer, interval, processedProducts,
                 currentProductIndex, ticks, now, response, generated, fired, client,
                 jsonStorage, fileTypes>>

\* ---------------------------------------- the OpenAI generator (part_000)

\* the sections the prompt asks for
Sections == {"basicInfo", "careRequirements", "compatibility", "aiContext",
             "breeding"}

\* the text of a completion: without braces, with braces around text that
\* is no JSON, or an object with some of the sections; commonNames: its
\* basicInfo has a list of common names
Completions ==
  {[json |-> j, sections |-> {}, commonNames |-> FALSE] : j \in {"none", "invalid"}}
    \cup [json : {"object"}, sections : SUBSET Sections, commonNames : BOOLEAN]

\* generation failed (the method throws)
Failure == [failed |-> TRUE, sections |-> {}]

\* parseOpenAIResponse: the sections are copied from the parsed object as
\* they are; generateSearchKeywords reads basicInfo.scientificName and
\* spreads basicInfo.commonNames, which throws when either is missing
ParseOpenAIResponse(completion) ==
  IF completion.json # "object"
  THEN Failure
  ELSE IF "basicInfo" \notin completion.sections \/ ~completion.commonNames
       THEN Failure
       ELSE [failed |-> FALSE, sections |-> completion.sections \cup {"metadata"}]

\* callOpenAI and the try of generateContent
GenerateContentOpenAI(apiKey, status, completion) ==
  IF ~apiKey
  THEN Failure
  ELSE IF status = Throws \/ ~Ok(status)
       THEN Failure
       ELSE ParseOpenAIResponse(completion)

\* a call of generateContent of part_000
CallGenerateContent(apiKey, status, completion) ==
  /\ call' = [op |-> "generateContent", apiKey |-> apiKey, status |-> status,
              completion |-> completion,
              result |-> GenerateContentOpenAI(apiKey, status, completion)]
  /\ UNCHANGED <<jobs, globalJobs, startTimer, interval, processedProducts,
                 currentProductIndex, ticks, now, response, generated, fired, client,
                 jsonStorage, fileTypes>>

\* ------------------------------------- the page (page.tsx, useJobProgress.ts)
\* A request of the page and the server's handling of it are one step; the
\* response travels on its own and responses may overtake each other.  The
\* event stream of useRealtimeUpdates has no route on the server and PATCH
\* never answers ok, so the page's copy changes by GET /jobs responses and
\* by the jobs the page creates itself.

\* jobs.filter(job => job.status === 'running' || job.status === 'pending')
ActiveJobs(list) == {k \in 1..Len(list) : list[k].status \in {"running", "pending"}}

\* an effect that sets the polling interval whenever the list has an active
\* job and never clears it
PollingEffectNoCleanup(intervals, list) ==
  IF ActiveJobs(list) = {} THEN intervals ELSE intervals + 1

\* the polling effect after the list has changed: the cleanup of its last
\* run clears the interval that run had set, then the effect sets one when
\* the list has an active job
PollingEffect(intervals, list) ==
  LET cleared == IF intervals > 0 THEN intervals - 1 ELSE intervals
  IN IF ActiveJobs(list) = {} THEN cleared ELSE cleared + 1

\* the page is (re)loaded: Home fetches the list and mounts the Dashboard
\* with it; the hook fetches again when it was empty; the polling effect runs
Load ==
  /\ dashboardJobs' = jobs
  /\ fetches' = IF Len(jobs) = 0 THEN <<jobs>> ELSE <<>>
  /\ pollTimer' = PollingEffect(pollTimer, jobs)
  /\ response' = [op |-> "GET", id |-> 0, status |-> "-", code |-> 200, error |-> "-"]
  /\ UNCHANGED <<jobs, globalJobs, startTimer, interval, processedProducts,
                 currentProductIndex, ticks, now, generated, fired, library>>

\* createJob of the hook: POST /jobs, and addJob(newJob) when it is answered
\* ok; the polling effect runs for the new list
CreateJob(categories, store, batchSize, fetchOk) ==
  /\ PostJobs(categories, store, batchSize, fetchOk)
  /\ IF response'.code = 201
     THEN /\ dashboardJobs' = <<response'.body>> \o dashboardJobs
          /\ pollTimer' = PollingEffect(pollTimer, dashboardJobs')
     ELSE UNCHANGED <<dashboardJobs, pollTimer>>
  /\ UNCHANGED fetches

\* the polling interval fires: fetchJobs() up to its await, answered by GET
FetchJobs ==
  /\ pollTimer > 0
  /\ Len(fetches) < MaxFetches
  /\ fetches' = Append(fetches, jobs)
  /\ response' = [op |-> "GET", id |-> 0, status |-> "-", code |-> 200, error |-> "-"]
  /\ UNCHANGED <<jobs, globalJobs, startTimer, interval, processedProducts,
                 currentProductIndex, ticks, now, generated, fired,
                 dashboardJobs, pollTimer, library>>

\* the i-th response under way arrives: setJobs(data), then the polling
\* effect is cleaned up and run again for the new list
FetchJobsResponse(i) ==
  /\ i \in 1..Len(fetches)
  /\ dashboardJobs' = fetches[i]
  /\ fetches' = Splice(fetches, i)
  /\ pollTimer' = PollingEffect(pollTimer, fetches[i])
  /\ UNCHANGED <<jobs, globalJobs, startTimer, interval, processedProducts,
                 currentProductIndex, ticks, now, response, generated, fired,
                 library>>

\* ---------------------------------------------------------------- Next
Next ==
  \/ GET
  \/ \E c \in CategoryInputs, n \in 0..(MaxProducts - ResolvedProducts),
        b \in 1..MaxBatch, fetchOk \in BOOLEAN :
       POST(c, Catalog(n), b, fetchOk)
  \/ \E id \in JobIds : Start(id)
  \/ \E id \in JobIds : TickBegin(id)
  \/ \E id \in JobIds, i \in 1..MaxInflight, o \in Outcomes : TickStep(id, i, o)
  \/ \E id \in RequestIds : GETById(id)
  \/ \E id \in RequestIds, s \in JobStatus : PATCH(id, s)
  \/ \E id \in RequestIds : DELETE(id)

Spec == Init /\ [][Next]_vars

\* the scheduling the code relies on: a pending timeout fires, an interval
\* that is not cleared keeps firing, and every awaited call returns
Fairness ==
  \A id \in JobIds :
    /\ WF_vars(Start(id))
    /\ WF_vars(TickBegin(id))
    /\ WF_vars(\E i \in 1..MaxInflight, o \in Outcomes : TickStep(id, i, o))

\* The runs checked for liveness: creation, the scheduler, and the requests
\* that are meant to stop a job.  The handlers left out only read.
LiveNext ==
  \/ \E c \in CategoryInputs, n \in 0..(MaxProducts - ResolvedProducts),
        b \in 1..MaxBatch, fetchOk \in BOOLEAN :
       POST(c, Catalog(n), b, fetchOk)
  \/ \E id \in JobIds : Start(id)
  \/ \E id \in JobIds : TickBegin(id)
  \/ \E id \in JobIds, i \in 1..MaxInflight, o \in Outcomes : TickStep(id, i, o)
  \/ \E id \in RequestIds, s \in {"paused", "cancelled"} : PATCH(id, s)
  \/ \E id \in RequestIds : DELETE(id)

LiveSpec == Init /\ [][LiveNext]_vars /\ Fairness

\* The runs in which every slice is finished within the 3 seconds between
\* two firings of the interval: a callback starts only when no earlier
\* callback of the job is suspended.
SerialNext ==
  \/ GET
  \/ \E c \in CategoryInputs, n \in 0..MaxSerialProducts,
        b \in 1..MaxBatch, fetchOk \in BOOLEAN :
       POST(c, Catalog(n), b, fetchOk)
  \/ \E id \in JobIds : Start(id)
  \/ \E id \in JobIds : ticks[id] = <<>> /\ TickBegin(id)
  \/ \E id \in JobIds, i \in 1..MaxInflight, o \in Outcomes : TickStep(id, i, o)
  \/ \E id \in RequestIds : GETById(id)
  \/ \E id \in RequestIds, s \in JobStatus : PATCH(id, s)
  \/ \E id \in RequestIds : DELETE(id)

SerialSpec == Init /\ [][SerialNext]_vars

\* The resolution of products, before stores that answer and stores that do
\* not: GET /products, and POST /jobs up to the start of the job.
ResolutionNext ==
  \/ GET
  \/ \E q \in ProductsQueries, store \in Stores : GETProducts(q, store)
  \/ \E c \in CategoryInputs, store \in Stores, b \in 1..MaxBatch,
        fetchOk \in BOOLEAN :
       POST(c, store, b, fetchOk)
  \/ \E id \in JobIds : Start(id)

ResolutionSpec == Init /\ [][ResolutionNext]_vars

\* The publisher called with every deployment method and every answer of
\* the storefront.
PublisherNext ==
  \E method \in DeploymentMethods, filesOk \in BOOLEAN, webhook \in FetchResults,
     sync \in FetchResults, api \in FetchResults :
    CallPublishContent(method, filesOk, webhook, sync, api)

PublisherSpec == Init /\ [][PublisherNext]_vars

\* The OpenAI generator called with every answer of the API.
GeneratorNext ==
  \E apiKey \in BOOLEAN, status \in {200, 500, Throws}, completion \in Completions :
    CallGenerateContent(apiKey, status, completion)

GeneratorSpec == Init /\ [][GeneratorNext]_vars

\* The json-files route, in either of its two versions.
JsonInit == \E v \in 1..2 : InitFor(FileTypes[v])

JsonFilesNext ==
  \/ JsonGET
  \/ \E p \in JsonProductIds, t \in JsonTypes, complete \in BOOLEAN :
       \E content \in PutContents(t) : JsonPUT(p, t, content, complete)
  \/ \E p \in JsonProductIds, t \in JsonTypes : JsonDELETE(p, t)
  \/ \E p \in JsonProductIds, t \in JsonTypes, store \in Stores,
        g \in BOOLEAN, w \in BOOLEAN :
       JsonPOST(p, t, store, g, w)
  \/ \E store \in Stores, k \in 1..(MaxMock * MaxMockCategories) :
       PopulateStorage(store, k)

JsonFilesSpec == JsonInit /\ [][JsonFilesNext]_vars

\* The json-files route when every file it holds comes from a regeneration.
RegenerationNext ==
  \/ JsonGET
  \/ \E p \in JsonProductIds, t \in JsonTypes, store \in Stores,
        g \in BOOLEAN, w \in BOOLEAN :
       JsonPOST(p, t, store, g, w)

RegenerationSpec == JsonInit /\ [][RegenerationNext]_vars

\* The page together with the handlers of /jobs and the scheduler.
DashboardNext ==
  \/ \E c \in CategoryInputs, n \in 0..(MaxProducts - ResolvedProducts),
        b \in 1..MaxBatch, fetchOk \in BOOLEAN :
       POST(c, Catalog(n), b, fetchOk)
  \/ \E id \in JobIds : Start(id)
  \/ \E id \in JobIds : TickBegin(id)
  \/ \E id \in JobIds, i \in 1..MaxInflight, o \in Outcomes : TickStep(id, i, o)
  \/ Load
  \/ \E c \in CategoryInputs, n \in 0..(MaxProducts - ResolvedProducts),
        b \in 1..MaxBatch, fetchOk \in BOOLEAN :
       CreateJob(c, Catalog(n), b, fetchOk)
  \/ FetchJobs
  \/ \E i \in 1..MaxFetches : FetchJobsResponse(i)

DashboardSpec == Init /\ [][DashboardNext]_vars

\* ------------------------------------------------------------- claims

Stored == 1..Len(jobs)

Created(id) == \E k \in Stored : jobs[k].id = id

StatusOf(id) == jobs[FindIndex(jobs, id)].status

Completed(id) == \E k \in Stored : jobs[k].id = id /\ jobs[k].status = "completed"

\* nothing is left that could change the job: no timer, no tick in flight
Settled(id) == id \notin startTimer /\ id \notin interval /\ ticks[id] = <<>>

\* the last response answers PATCH /jobs/{id} with body {status}
Answered(id, status) ==
  response.op = "PATCH" /\ response.id = id /\ response.status = status

\* C1: in every state of the job store, for every job, completed >= 0,
\* failed >= 0 and completed + failed <= total.
C1_ProgressWithinTotal ==
  \A k \in Stored :
    /\ jobs[k].progress.completed >= 0
    /\ jobs[k].progress.failed >= 0
    /\ jobs[k].progress.completed + jobs[k].progress.failed <= jobs[k].progress.total

\* C2: a job has at most one tick in flight: no tick begins to read the
\* cursor while an earlier tick of the job has not committed its progress.
C2_OneOutstandingTick ==
  \A id \in JobIds : Len(ticks[id]) <= 1

\* C3: once a job has been cancelled while one of its ticks is in flight,
\* its progress does not change any more and it ends as cancelled.
C3_CancelDiscardsTick ==
  [][\A k \in Stored :
       (Answered(jobs[k].id, "cancelled") /\ ticks[jobs[k].id] # <<>>)
         => /\ jobs'[k].progress = jobs[k].progress
            /\ Settled(jobs[k].id)' => jobs'[k].status = "cancelled"]_vars

\* the transition table of the status state machine
Allowed(from, to) ==
  <<from, to>> \in {<<"pending", "running">>, <<"running", "paused">>,
                    <<"paused", "running">>, <<"running", "cancelled">>,
                    <<"paused", "cancelled">>, <<"running", "completed">>,
                    <<"running", "failed">>}

\* C4: a PATCH whose status is no allowed successor of the job's current
\* status is rejected as an invalid transition (it neither succeeds nor
\* reports the job missing) and changes no job.
C4_InvalidTransitionRejected ==
  [][\A id \in RequestIds, s \in JobStatus :
       (PATCH(id, s) /\ Created(id) /\ ~Allowed(StatusOf(id), s))
         => /\ response'.code \notin {200, 404}
            /\ jobs' = jobs
            /\ globalJobs' = globalJobs]_vars

C8_CompletedAtSetOnce ==
  [][\A k \in Stored :
       /\ jobs'[k].status \in {"pending", "running", "paused"}
            => jobs'[k].completedAt = Unset
       /\ jobs'[k].status \in {"completed", "cancelled"}
            => jobs'[k].completedAt # Unset
       /\ jobs[k].completedAt # Unset
            => jobs'[k].completedAt = jobs[k].completedAt]_vars

\* C9: whenever a job is completed, every product has been counted once:
\* completed + failed = total.
C9_CompletedCountsAll ==
  \A k \in Stored :
    jobs[k].status = "completed"
      => jobs[k].progress.completed + jobs[k].progress.failed = jobs[k].progress.total

\* C10: whatever the per-product outcomes, every created job (batchSize >= 1)
\* eventually is completed, and no job is ever failed.
C10_FailuresNeverAbort ==
  /\ \A id \in JobIds : Created(id) ~> Completed(id)
  /\ [](\A k \in Stored : jobs[k].status # "failed")

\* C10 witness: a completed job with both kinds of per-product failure
\* recorded and a product published.
C10_Witness ==
  \E k \in Stored :
    /\ jobs[k].status = "completed"
    /\ jobs[k].batchSize >= 1
    /\ jobs[k].progress.completed >= 1
    /\ \E e \in 1..Len(jobs[k].errors) : jobs[k].errors[e].errorType = "ai-generation"
    /\ \E e \in 1..Len(jobs[k].errors) : jobs[k].errors[e].errorType = "deployment"

\* products of job id passed to the generator so far
GeneratedFor(id) == generated[id]

\* C11: for every job, the products handed to the content generator so far
\* are the first products of the job's list, in the list's order, each once
\* (no slice is processed by two ticks).
C11_GeneratedIsPrefix ==
  \A k \in Stored :
    LET g == GeneratedFor(jobs[k].id)
    IN /\ Len(g) <= Len(jobs[k].products)
       /\ \A m \in 1..Len(g) : g[m] = jobs[k].products[m]

\* C12: a job created by POST /jobs and not deleted is found by the
\* /jobs/{id} handlers: GET answers 200, PATCH answers 200 and sets the status
\* of the job the scheduler drives, DELETE answers 200 and removes that job.
C12_OneJobStore ==
  [][\A id \in RequestIds :
       Created(id) =>
         /\ GETById(id) => response'.code = 200
         /\ \A s \in JobStatus :
              PATCH(id, s) => (response'.code = 200 /\ StatusOf(id)' = s)
         /\ DELETE(id) => (response'.code = 200 /\ ~Created(id)')]_vars

\* the step in which the product at hand of the i-th tick of job id ends with
\* the given failure: one error of that type with the product's id is
\* appended, the failure is counted once and no success is counted
FailureRecorded(id, i, errorType) ==
  LET k == FindIndex(jobs, id)
      t == ticks[id][i]
      product == jobs[k].products[t.start + t.pos + 1]
  IN /\ jobs'[k].errors =
          Append(jobs[k].errors, [productId |-> product, errorType |-> errorType])
     /\ IF t.pos + 1 < t.batchSize
        THEN /\ ticks'[id][i].batchFailed = t.batchFailed + 1
             /\ ticks'[id][i].batchSuccessful = t.batchSuccessful
             /\ jobs'[k].progress = jobs[k].progress
        ELSE /\ jobs'[k].progress.failed = jobs[k].progress.failed + t.batchFailed + 1
             /\ jobs'[k].progress.completed =
                  jobs[k].progress.completed + t.batchSuccessful

\* errors of the job with the given type
ErrorsOfType(job, errorType) ==
  {e \in 1..Len(job.errors) : job.errors[e].errorType = errorType}

Ceil(n, b) == (n + b - 1) \div b

\* no call of the job's generator or publisher has failed
AllSucceeded(job) == job.errors = <<>> /\ job.progress.failed = 0

\* the job is completed exactly when ceil(N/B) ticks have run, with every
\* product counted as completed
CompletedAfterCeilTicks(job) ==
  LET N == Len(job.products)
      B == job.batchSize
  IN /\ job.status = "completed" =>
          /\ fired[job.id] = Ceil(N, B)
          /\ job.progress = [total |-> N, completed |-> N, failed |-> 0,
                             percentage |-> 100]
     /\ (job.status = "running" /\ ticks[job.id] = <<>>) => fired[job.id] < Ceil(N, B)

\* C15 as stated: every job of N products and batchSize B >= 1 whose calls
\* all succeed and whose ticks do not overlap is completed after exactly
\* ceil(N/B) ticks with progress {N, N, 0, 100}, the tick of the last slice
\* marking it completed.
C15_CompletedAfterCeilTicks ==
  \A k \in Stored :
    (jobs[k].batchSize >= 1 /\ AllSucceeded(jobs[k])) => CompletedAfterCeilTicks(jobs[k])

\* C15 amended: the same for jobs of at least one product.
C15_CompletedAfterCeilTicksNonEmpty ==
  \A k \in Stored :
    (jobs[k].batchSize >= 1 /\ AllSucceeded(jobs[k]) /\ Len(jobs[k].products) >= 1)
      => CompletedAfterCeilTicks(jobs[k])

\* C15 witness: 5 products in slices of 2, completed by the third tick.
C15_Witness ==
  \E k \in Stored :
    /\ Len(jobs[k].products) = 5
    /\ jobs[k].batchSize = 2
    /\ AllSucceeded(jobs[k])
    /\ jobs[k].status = "completed"
    /\ fired[jobs[k].id] = 3
    /\ jobs[k].progress = [total |-> 5, completed |-> 5, failed |-> 0, percentage |-> 100]

\* C16: in every state, for every job, percentage is 0 when total is 0 and
\* round(100 * completed / total) otherwise, with total the number of
\* products resolved at creation, and it is never above 100.
C16_PercentageFromProgress ==
  \A k \in Stored :
    LET p == jobs[k].progress
    IN /\ p.total = Len(jobs[k].products)
       /\ p.total = 0 => p.percentage = 0
       /\ p.total > 0 => p.percentage = Percentage(p.completed, p.total)
       /\ p.percentage <= 100

\* completed + failed of the job with the given id in a list of jobs
Counted(list, id) ==
  LET k == FindIndex(list, id)
  IN list[k].progress.completed + list[k].progress.failed

\* C17: for every job, completed and failed never decrease in the store, and
\* the copy of the job on the page never shows completed + failed lower than
\* it showed before, in whatever order the responses arrive.
C17_ProgressNeverDecreases ==
  [][/\ \A k \in Stored :
          /\ jobs'[k].progress.completed >= jobs[k].progress.completed
          /\ jobs'[k].progress.failed >= jobs[k].progress.failed
     /\ \A id \in JobIds :
          (FindIndex(dashboardJobs, id) # 0 /\ FindIndex(dashboardJobs', id) # 0)
            => Counted(dashboardJobs', id) >= Counted(dashboardJobs, id)]_vars

\* C18: an error is appended to a job's errors only while the job's status
\* is running, also by a tick that was in flight when the status changed.
C18_ErrorsOnlyWhileRunning ==
  [][\A k \in Stored :
       Len(jobs'[k].errors) > Len(jobs[k].errors) => jobs[k].status = "running"]_vars

\* the request body had no categories, or an empty list of them
NoCategories(categories) == ~categories.present \/ categories.ids = <<>>

\* C19: a successful POST /jobs (a step that answers a POST whose products
\* were resolved) appends one job and answers 201 with it: the
\* job is pending, its total is the number of products resolved, completed,
\* failed and percentage are 0 and errors is empty; without categories the
\* products are the whole catalog; processing has not started when the
\* response is built: only the start timer is set.
C19_PostCreatesPendingJob ==
  [][response'.op = "POST" =>
       \A c \in CategoryInputs, n \in 0..MaxSerialProducts, b \in 1..MaxBatch :
         POST(c, Catalog(n), b, TRUE) =>
           LET job == jobs'[Len(jobs')]
           IN /\ jobs' = Append(jobs, job)
              /\ response'.code = 201
              /\ response'.body = job
              /\ job.status = "pending"
              /\ job.progress = [total |-> Len(job.products), completed |-> 0,
                                 failed |-> 0, percentage |-> 0]
              /\ job.errors = <<>>
              /\ NoCategories(c) => job.products = Products(n)
              /\ job.id \in startTimer'
              /\ job.id \notin interval'
              /\ ticks'[job.id] = <<>>
              /\ generated'[job.id] = <<>>
              /\ fired'[job.id] = 0]_vars

\* C19 witness: the 201 response to a POST with an empty categories list
\* over a catalog of several products, the job stored and still pending.
C19_Witness ==
  /\ response.op = "POST"
  /\ response.code = 201
  /\ \E k \in Stored :
       /\ jobs[k] = response.body
       /\ jobs[k].categories = [present |-> TRUE, ids |-> <<>>]
       /\ Len(jobs[k].products) >= 2
       /\ jobs[k].progress.total = Len(jobs[k].products)
       /\ jobs[k].status = "pending"

\* the last response is the 500 of a POST /jobs
CreationFailed == response.op = "POST" /\ response.code = 500

\* C20: when the products cannot be resolved because the store does not
\* answer, POST /jobs answers 500, the list of jobs is what it was and no
\* scheduler is started: no timer is set, no interval, no tick.
C20_FailedResolutionCreatesNothing ==
  [][response'.op = "POST" =>
       \A c \in CategoryInputs, store \in FailingStores, b \in 1..MaxBatch,
          fetchOk \in BOOLEAN :
         POST(c, store, b, fetchOk) =>
           /\ CreationFailed'
           /\ jobs' = jobs
           /\ startTimer' = startTimer
           /\ interval' = interval
           /\ ticks' = ticks]_vars

\* the part of C20 that POST does by itself: when its own request to
\* /api/products is not answered ok, it answers 500 and the list of jobs,
\* the timers and the ticks are what they were
C20_FailedRequestCreatesNothing ==
  [][response'.op = "POST" =>
       \A c \in CategoryInputs, n \in 0..MaxSerialProducts, b \in 1..MaxBatch :
         POST(c, Catalog(n), b, FALSE) =>
           /\ CreationFailed'
           /\ jobs' = jobs
           /\ startTimer' = startTimer
           /\ interval' = interval
           /\ ticks' = ticks]_vars

\* C20 witness: a creation has just failed; the list holds no job of it
\* and nothing is scheduled.
C20_Witness ==
  /\ CreationFailed
  /\ Len(jobs) < MaxJobs
  /\ startTimer = {}
  /\ interval = {}

\* C26: when the commerce API does not answer, GET /products answers 500
\* and no list of products.
C26_UnreachableSourceAnswers500 ==
  [][response'.op = "GETProducts" =>
       \A q \in ProductsQueries, store \in FailingStores :
         (store.configured /\ GETProducts(q, store)) => response'.code = 500]_vars

\* what GET /products does then: it answers 200 with mock products
C26_MockProductsServed ==
  /\ response.op = "GETProducts"
  /\ response.code = 200
  /\ Len(response.body) > 0
  /\ \A k \in 1..Len(response.body) : response.body[k].productId >= MockBase

\* C21: DELETE /jobs/{id} of a job that was created answers 200 and removes
\* it: the job is no longer in the list GET /jobs returns, and no interval
\* is left for it; DELETE of an id that names no job answers 404 and leaves
\* both arrays as they were.
C21_DeleteRemovesJob ==
  [][\A id \in RequestIds :
       DELETE(id) =>
         IF Created(id)
         THEN /\ response'.code = 200
              /\ ~Created(id)'
              /\ id \notin interval'
         ELSE /\ response'.code = 404
              /\ jobs' = jobs
              /\ globalJobs' = globalJobs]_vars

\* what DELETE does on every id: 404, nothing removed
C21_DeleteFindsNothing ==
  \E k \in Stored :
    /\ response.op = "DELETE"
    /\ response.id = jobs[k].id
    /\ response.code = 404

\* C27: in every state a reader of the job can see, also while a tick is
\* suspended between two products of its slice, the number of errors is
\* progress.failed.
C27_ErrorsMatchFailed ==
  \A k \in Stored : Len(jobs[k].errors) = jobs[k].progress.failed

\* the last response answers DELETE /jobs/{id}
Deleted(id) == response.op = "DELETE" /\ response.id = id

\* C28: the start of the scheduler sets a job running only when it is
\* pending, and after a request to pause, cancel or delete the job that came
\* before the start timer fired, the start does not set it running and
\* starts no interval for it.
C28_StartOnlyFromPending ==
  [][\A k \in Stored :
       Start(jobs[k].id) =>
         /\ jobs'[k].status # jobs[k].status => jobs[k].status = "pending"
         /\ (\/ Answered(jobs[k].id, "paused")
             \/ Answered(jobs[k].id, "cancelled")
             \/ Deleted(jobs[k].id))
              => /\ jobs'[k].status # "running"
                 /\ jobs[k].id \notin interval']_vars

\* the fields of a job a PATCH must leave alone
Frame(job) == [id |-> job.id, categories |-> job.categories, products |-> job.products,
               batchSize |-> job.batchSize, progress |-> job.progress,
               startedAt |-> job.startedAt, errors |-> job.errors]

\* the PATCH leaves the array as long as it was, every job's frame as it
\* was, and every job but the one named untouched
FramePreserved(before, after, id) ==
  /\ Len(after) = Len(before)
  /\ \A k \in 1..Len(before) :
       /\ Frame(after[k]) = Frame(before[k])
       /\ before[k].id # id => after[k] = before[k]

C30_PollingIffActiveJobs ==
  /\ pollTimer <= 1
  /\ pollTimer > 0 <=> ActiveJobs(dashboardJobs) # {}

\* C30 witness: the interval that was set for an active job has been
\* cleared: the list holds a job, none is active, and no interval is set.
C30_Witness ==
  /\ Len(dashboardJobs) > 0
  /\ ActiveJobs(dashboardJobs) = {}
  /\ pollTimer = 0

\* the interval is set while the list shows a job created by the page itself
C30_WitnessStarted ==
  /\ pollTimer = 1
  /\ \E k \in 1..Len(dashboardJobs) : dashboardJobs[k].status = "pending"

\* the files GET /json-files lists with the given product id and type name
Listed(productId, type) ==
  {key \in DOMAIN jsonStorage :
     /\ JSONFiles(jsonStorage)[key].productId = productId
     /\ JSONFiles(jsonStorage)[key].type = Pieces(type)}

\* C24: when the storage holds an artifact for a product and one of the type
\* names of the route, GET /json-files lists exactly one file with that
\* product id and that type.
C24_OneFilePerProductAndType ==
  \A p \in JsonProductIds \ {0}, v \in 1..2 :
    MapHas(jsonStorage, GetStorageKey(p, fileTypes[v]))
      => Cardinality(Listed(p, fileTypes[v])) = 1

\* what GET lists for an artifact stored as ai-search: a file of type "ai"
C24_ListedAsAi ==
  /\ response.op = "JsonGET"
  /\ \E key \in DOMAIN response.body :
       key[2] = "ai" /\ response.body[key].type = <<"ai">>

\* two content objects that differ in their timestamp at most
SameButTimestamps(a, b) == [a EXCEPT !.generatedAt = 0] = [b EXCEPT !.generatedAt = 0]

\* C25: a regeneration that replaces a file written by an earlier
\* regeneration of the same product writes the same content, timestamps
\* apart.
C25_RegenerationRepeats ==
  [][response'.op = "JsonPOST" =>
       \A key \in DOMAIN jsonStorage :
         SameButTimestamps(jsonStorage[key], jsonStorage'[key])]_vars

\* what a second regeneration does with mock data: the file of the product
\* id is rewritten for a product of another category
C25_OtherProductSameId ==
  \E key \in DOMAIN jsonStorage :
    /\ response.op = "JsonPOST"
    /\ jsonStorage[key].generatedAt > 1
    /\ jsonStorage[key].category = 2
    /\ key[1] >= MockBase

\* C22: the publisher falls back from the webhook to the file sync, and from
\* the file sync to the static files for manual import, only on a 404; on
\* any other status that is not ok and on a fetch that rejects there is no
\* fallback and publishContent returns false.
C22_FallbackOnlyOn404 ==
  (call.op = "publishContent" /\ call.filesOk) =>
    /\ (call.method = "webhook" /\ call.webhook \notin {200, 404})
         => call.result = Published(FALSE, <<"webhook">>)
    /\ (call.method = "webhook" /\ call.webhook = 404)
         => call.result.steps[2] = "file-sync"
    /\ (call.method = "file-sync" /\ call.sync \notin {200, 404})
         => call.result = Published(FALSE, <<"file-sync">>)
    /\ (call.method = "file-sync" /\ call.sync = 404)
         => call.result = Published(TRUE, <<"file-sync", "static">>)

\* what the publisher does on a 500 of the webhook: it goes on to the file
\* sync and returns true
C22_FallbackOn500 ==
  /\ call.op = "publishContent"
  /\ call.filesOk
  /\ call.method = "webhook"
  /\ call.webhook = 500
  /\ call.result = Published(TRUE, <<"webhook", "file-sync">>)

\* C23: generateContent fails or returns content that has every section
\* (basicInfo, careRequirements, compatibility, aiContext, breeding,
\* metadata); it fails when the API answers with an error, with text that is
\* no JSON, or with JSON that lacks a section.
C23_AllSectionsOrFailure ==
  call.op = "generateContent" =>
    /\ call.result.failed \/ Sections \cup {"metadata"} \subseteq call.result.sections
    /\ (\/ call.status # 200
        \/ call.completion.json # "object"
        \/ ~(Sections \subseteq call.completion.sections))
         => call.result.failed

\* what generateContent returns for JSON with basicInfo only: content
\* without the other sections
C23_PartialContent ==
  /\ call.op = "generateContent"
  /\ ~call.result.failed
  /\ call.result.sections = {"basicInfo", "metadata"}

====
